---- MODULE Spec2Model ----
(***************************************************************************)
(* ClusterClassifier (src/src/text_clustering.py): the orchestration of    *)
(* embedding, projection, clustering, nearest-neighbour indexing and       *)
(* summarization, with the caching, inference and persistence around it.   *)
(*                                                                         *)
(* Python values are written as follows.  An attribute or argument that    *)
(* may be None is a sequence: <<>> is None and <<x>> is the value x.  An   *)
(* attribute the constructor never assigns is <<>> while it is unset and   *)
(* <<v>> once assigned (v itself may be None).  Lists are sequences and    *)
(* are indexed from 0 as in the source (At).  Dictionaries are functions   *)
(* whose DOMAIN is the key set.  Strings that the code cuts, splits or     *)
(* parses are sequences of characters.                                     *)
(***************************************************************************)
EXTENDS Integers, Sequences, FiniteSets, TLC

VARIABLES self, folder, last, saved

vars == <<self, folder, last, saved>>

(***************************************************************************)
(* Bounds of the model.                                                    *)
(***************************************************************************)
MaxDocs == 2
MaxCorpus == 3
MaxTopK == 4
MaxInfer == 1

(***************************************************************************)
(* Python helpers.                                                         *)
(***************************************************************************)
None == <<>>
Some(x) == <<x>>
Val(o) == o[1]
Unset == <<>>
Attr(v) == <<v>>

Range(s) == {s[i] : i \in DOMAIN s}
At(list, i) == list[i + 1]
Min(a, b) == IF a < b THEN a ELSE b

\* x or y, for an optional integer x (None and 0 are falsy) and an integer y
OrInt(x, y) == IF x # None /\ Val(x) # 0 THEN Val(x) ELSE y
\* x or y, for an optional list x (None and [] are falsy) and an optional y
OrList(x, y) == IF x # None /\ Val(x) # <<>> THEN x ELSE y
\* x or y, for an optional string x (None and "" are falsy) and a string y
OrStr(x, y) == IF x # None /\ Val(x) # "" THEN Val(x) ELSE y

RECURSIVE Sum(_)
Sum(s) == IF s = <<>> THEN 0 ELSE s[1] + Sum(Tail(s))
\* np.mean of a non-empty list, as the exact fraction <<sum, count>>
Mean(s) == <<Sum(s), Len(s)>>

(***************************************************************************)
(* The documents, and the external collaborators as black boxes.           *)
(***************************************************************************)
Texts == {<<"a">>, <<"b", "b", "b">>, <<"c", "c">>}
\* the corpora: the first n documents of a collection in which the three
\* texts follow each other
Corpus(n) ==
    [i \in 1..n |-> CASE i % 3 = 1 -> <<"a">>
                     [] i % 3 = 2 -> <<"b", "b", "b">>
                     [] i % 3 = 0 -> <<"c", "c">>]
\* the shortest and the longest corpus of up to n documents
Corpora(n) == {Corpus(1), Corpus(n)}
TextLists == Corpora(MaxDocs)

ProjectionAlgorithms == {"pca", "tsvd", "umap"}
ClusteringAlgorithms == {"dbscan", "hdbscan", "optics", "kmeans"}

\* SentenceTransformer.encode of one text: a deterministic vector
EmbedModel(t) == Len(t)
embed(texts) == [i \in 1..Len(texts) |-> EmbedModel(texts[i])]

build_faiss_index(embeddings) == embeddings

\* the mapper's coordinates of one vector; the result of project is None
\* (the function falls off its end) for an algorithm it does not know
Coordinates(v, algorithm) ==
    CASE algorithm = "pca" -> <<v, 0>>
      [] algorithm = "umap" -> <<v, v>>
      [] algorithm = "tsvd" -> <<v, 2 * v>>
project(embeddings, algorithm) ==
    IF algorithm \in ProjectionAlgorithms
    THEN Some(<<[i \in 1..Len(embeddings) |-> Coordinates(embeddings[i], algorithm)],
                algorithm>>)
    ELSE None

\* labels_ of a fitted clusterer on n points: -1 is noise, the clusters are
\* numbered 0..k-1; KMeans assigns every point to a cluster
Labelings(n) ==
    {l \in [1..n -> -1..(n - 1)] :
        LET clusters == Range(l) \ {-1}
        IN  clusters = 0..(Cardinality(clusters) - 1)}
\* the labelings of up to MaxDocs or MaxCorpus points, computed once
MaxPoints == IF MaxDocs > MaxCorpus THEN MaxDocs ELSE MaxCorpus
LabelingsOf == [n \in 1..MaxPoints |-> Labelings(n)]
KMeansLabelingsOf ==
    [n \in 1..MaxPoints |-> {l \in Labelings(n) : -1 \notin Range(l)}]
ClusterResults(n, algorithm) ==
    IF algorithm = "kmeans" THEN KMeansLabelingsOf[n] ELSE LabelingsOf[n]

(***************************************************************************)
(* store_cluster_info, and the same bookkeeping as load repeats it.        *)
(***************************************************************************)
id2cluster_of(cluster_labels) ==
    [index \in 0..(Len(cluster_labels) - 1) |-> At(cluster_labels, index)]

\* label2docs_of as it would be if the lists were extended without being
\* emptied first, every document landing in its list twice
label2docs_appended_twice(cluster_labels) ==
    [label \in Range(cluster_labels) |->
        LET docs == SelectSeq([i \in 1..Len(cluster_labels) |-> i - 1],
                              LAMBDA doc : At(cluster_labels, doc) = label)
        IN  docs \o docs]

label2docs_of(cluster_labels) ==
    [label \in Range(cluster_labels) |->
        SelectSeq([i \in 1..Len(cluster_labels) |-> i - 1],
                  LAMBDA doc : At(cluster_labels, doc) = label)]

\* the keys of label2docs in insertion order
RECURSIVE KeyOrder(_, _)
KeyOrder(cluster_labels, seen) ==
    IF cluster_labels = <<>> THEN <<>>
    ELSE IF cluster_labels[1] \in seen THEN KeyOrder(Tail(cluster_labels), seen)
    ELSE <<cluster_labels[1]>>
            \o KeyOrder(Tail(cluster_labels), seen \cup {cluster_labels[1]})

\* the loop over label2docs.keys(): [centers, raised]; projections[doc, 0]
\* raises IndexError for a doc that is no row of projections, and the
\* centers of the labels before it are already stored
RECURSIVE CentersLoop(_, _, _, _)
CentersLoop(keys, label2docs, projections, centers) ==
    IF keys = <<>> THEN [centers |-> centers, raised |-> FALSE]
    ELSE LET label == keys[1]
             docs == label2docs[label]
         IN  IF \E i \in 1..Len(docs) : docs[i] >= Len(projections)
             THEN [centers |-> centers, raised |-> TRUE]
             ELSE CentersLoop(Tail(keys), label2docs, projections,
                    centers @@ (label :>
                      <<Mean([i \in 1..Len(docs) |-> At(projections, docs[i])[1]]),
                        Mean([i \in 1..Len(docs) |-> At(projections, docs[i])[2]])>>))

\* an empty dict
EmptyDict == [k \in {} |-> 0]

\* [self, raised]: the object after the bookkeeping ran on it
ClusterInfo(s, cluster_labels) ==
    LET l2d == label2docs_of(cluster_labels)
        loop == CentersLoop(KeyOrder(cluster_labels, {}), l2d,
                            Val(s.projections), EmptyDict)
    IN  [self |-> [s EXCEPT !.id2cluster = Attr(id2cluster_of(cluster_labels)),
                            !.label2docs = Some(l2d),
                            !.cluster_centers = Attr(loop.centers)],
         raised |-> loop.raised]

store_cluster_info(s, cluster_labels) ==
    ClusterInfo([s EXCEPT !.cluster_labels = Some(cluster_labels)], cluster_labels)

(***************************************************************************)
(* _postprocess_response, topic_mode "multiple_topics".                    *)
(***************************************************************************)
Whitespace == {" ", "\n"}

RECURSIVE Before(_, _)
Before(str, c) ==
    IF str = <<>> \/ str[1] = c THEN <<>>
    ELSE <<str[1]>> \o Before(Tail(str), c)

RECURSIVE LStrip(_)
LStrip(str) ==
    IF str # <<>> /\ str[1] \in Whitespace THEN LStrip(Tail(str)) ELSE str
RECURSIVE RStrip(_)
RStrip(str) ==
    IF str # <<>> /\ str[Len(str)] \in Whitespace
    THEN RStrip(SubSeq(str, 1, Len(str) - 1)) ELSE str
Strip(str) == RStrip(LStrip(str))

RECURSIVE Split(_, _)
Split(str, c) ==
    IF c \notin Range(str) THEN <<str>>
    ELSE <<Before(str, c)>>
            \o Split(SubSeq(str, Len(Before(str, c)) + 2, Len(str)), c)

RECURSIVE Join(_, _)
Join(parts, c) ==
    IF parts = <<>> THEN <<>>
    ELSE IF Len(parts) = 1 THEN parts[1]
    ELSE parts[1] \o <<c>> \o Join(Tail(parts), c)

postprocess_response(response) ==
    LET summary == Before(Before(Before(response, "\n"), "."), "(")
    IN  Join(SelectSeq(Split(Strip(summary), ","), LAMBDA txt : Len(txt) > 0), ",")

\* InferenceClient.text_generation: the service's answer to a request, a
\* fixed function of the examples it is sent
text_generation(examples) ==
    IF examples[1][1] = "a"
    THEN <<"a", ",", ",", "b", ".", "c">>
    ELSE <<" ", "b", " ", "(", "c">>

(***************************************************************************)
(* summarize: the set of its possible runs.  A run is                      *)
(*   [outcome, requests, summaries, label2docs]                            *)
(* requests are the requests sent to the service, in order: the label and  *)
(* the sampled ids of each request are recorded with its example texts.    *)
(***************************************************************************)
\* Truncate as it would be if the example texts were not cut
TruncateNothing(text, n) == text

\* text[:n]
Truncate(text, n) == SubSeq(text, 1, Min(n, Len(text)))

RECURSIVE SummarizeLoop(_, _, _, _, _, _, _)
SummarizeLoop(s, label, unique_labels, label2docs, texts, requests, summaries) ==
    IF label >= unique_labels
    THEN {[outcome |-> "ok", requests |-> requests, summaries |-> summaries,
           label2docs |-> label2docs]}
    ELSE IF label \notin DOMAIN label2docs \/ label2docs[label] = <<>>
    THEN \* defaultdict inserts the missing key; np.random.choice([]) raises
         {[outcome |-> "ValueError", requests |-> requests, summaries |-> summaries,
           label2docs |-> IF label \in DOMAIN label2docs THEN label2docs
                          ELSE label2docs @@ (label :> <<>>)]}
    ELSE UNION {
           IF texts = None
           THEN {[outcome |-> "TypeError", requests |-> requests,
                  summaries |-> summaries, label2docs |-> label2docs]}
           ELSE IF \E i \in 1..s.summary_n_examples : ids[i] >= Len(Val(texts))
           THEN {[outcome |-> "IndexError", requests |-> requests,
                  summaries |-> summaries, label2docs |-> label2docs]}
           ELSE LET examples == [i \in 1..s.summary_n_examples |->
                        Truncate(At(Val(texts), ids[i]), s.summary_chunk_size)]
                    response == text_generation(examples)
                IN  SummarizeLoop(s, label + 1, unique_labels, label2docs, texts,
                        Append(requests, [label |-> label, ids |-> ids,
                                          examples |-> examples]),
                        summaries @@ (label :> postprocess_response(response)))
           : ids \in [1..s.summary_n_examples -> Range(label2docs[label])]}

\* summarize as it would be if its loop ran over every label of the
\* clustering, the noise label included
summarize_every_label(s, texts, labels) ==
    LET unique_labels == Cardinality(Range(labels)) - 1
    IN  SummarizeLoop(s, -1, unique_labels, Val(s.label2docs), texts, <<>>,
                      (-1 :> <<"N", "o", "n", "e">>))

summarize(s, texts, labels) ==
    LET unique_labels == Cardinality(Range(labels)) - 1
    IN  SummarizeLoop(s, 0, unique_labels, Val(s.label2docs), texts, <<>>,
                      (-1 :> <<"N", "o", "n", "e">>))

(***************************************************************************)
(* __init__: the object after construction.                                *)
(***************************************************************************)
Construct(batch_size, projection_algorithm, clustering_algorithm, summary_create, summary_n_examples, summary_chunk_size) ==
    [batch_size |-> batch_size,
     projection_algorithm |-> projection_algorithm,
     clustering_algorithm |-> clustering_algorithm,
     summary_create |-> summary_create,
     summary_n_examples |-> summary_n_examples,
     summary_chunk_size |-> summary_chunk_size,
     embeddings |-> None,
     faiss_index |-> None,
     cluster_labels |-> None,
     texts |-> None,
     projections |-> None,
     mapper |-> None,
     label2docs |-> None,
     id2cluster |-> Unset,
     cluster_centers |-> Unset,
     cluster_summaries |-> Unset]

(***************************************************************************)
(* fit: the set of its possible runs, stage after stage.  A run is         *)
(*   [self, outcome, stages, requests]                                     *)
(* self is the object the call leaves behind, outcome is "ok" or the       *)
(* exception that ended it, stages are the stages it invoked, in order.    *)
(***************************************************************************)
Run(s, outcome, stages, requests) ==
    [self |-> s, outcome |-> outcome, stages |-> stages, requests |-> requests]

\* SummarizeStage as it would be without the else branch of line 156
SummarizeStageNoElse(s, stages) ==
    IF s.summary_create
    THEN {IF r.outcome = "ok"
          THEN Run([s EXCEPT !.cluster_summaries = Attr(Some(r.summaries)),
                             !.label2docs = Some(r.label2docs)],
                   "ok", Append(stages, "summarize"), r.requests)
          ELSE Run([s EXCEPT !.label2docs = Some(r.label2docs)],
                   r.outcome, Append(stages, "summarize"), r.requests)
          : r \in summarize(s, s.texts, Val(s.cluster_labels))}
    ELSE {Run(s, "ok", stages, <<>>)}

\* lines 152-157
SummarizeStage(s, stages) ==
    IF s.summary_create
    THEN {IF r.outcome = "ok"
          THEN Run([s EXCEPT !.cluster_summaries = Attr(Some(r.summaries)),
                             !.label2docs = Some(r.label2docs)],
                   "ok", Append(stages, "summarize"), r.requests)
          ELSE Run([s EXCEPT !.label2docs = Some(r.label2docs)],
                   r.outcome, Append(stages, "summarize"), r.requests)
          : r \in summarize(s, s.texts, Val(s.cluster_labels))}
    ELSE {Run([s EXCEPT !.cluster_summaries = Attr(None)], "ok", stages, <<>>)}

ClusterStage(s, stages) ==
    IF s.clustering_algorithm \notin ClusteringAlgorithms
    THEN {Run(s, "UnboundLocalError", Append(stages, "cluster"), <<>>)}
    ELSE UNION {
           LET info == store_cluster_info(s, labels)
           IN  IF info.raised
               THEN {Run(info.self, "IndexError", Append(stages, "cluster"), <<>>)}
               ELSE SummarizeStage(info.self, Append(stages, "cluster"))
           : labels \in ClusterResults(Len(Val(s.projections)), s.clustering_algorithm)}

ProjectStage(s, stages) ==
    IF s.projections # None
    THEN ClusterStage(s, stages)
    ELSE LET result == project(Val(s.embeddings), s.projection_algorithm)
         IN  IF result = None
             THEN {Run(s, "TypeError", Append(stages, "project"), <<>>)}
             ELSE ClusterStage([s EXCEPT !.projections = Some(Val(result)[1]),
                                         !.mapper = Some(Val(result)[2])],
                               Append(stages, "project"))

\* IndexStage as it would be if the index were built once the other stages
\* of the call have run
IndexStageLast(s, stages) ==
    {IF r.outcome = "ok" /\ r.self.faiss_index = None
     THEN Run([r.self EXCEPT !.faiss_index =
                                 Some(build_faiss_index(Val(r.self.embeddings)))],
              "ok", Append(r.stages, "index"), r.requests)
     ELSE r
     : r \in ProjectStage(s, stages)}

\* lines 139-140: an index the object holds is kept
IndexStage(s, stages) ==
    IF s.faiss_index # None
    THEN ProjectStage(s, stages)
    ELSE ProjectStage([s EXCEPT !.faiss_index =
                                    Some(build_faiss_index(Val(s.embeddings)))],
                      Append(stages, "index"))

\* EmbedStage as it would be if fit embedded whenever it is given texts
EmbedStageAlways(s, texts, stages) ==
    IF s.embeddings # None /\ texts = None
    THEN IndexStage(s, stages)
    ELSE IF texts = None
    THEN {Run(s, "TypeError", Append(stages, "embed"), <<>>)}
    ELSE IndexStage([s EXCEPT !.embeddings = Some(embed(Val(texts)))],
                    Append(stages, "embed"))

EmbedStage(s, texts, stages) ==
    IF s.embeddings # None
    THEN IndexStage(s, stages)
    ELSE IF texts = None
    THEN {Run(s, "TypeError", Append(stages, "embed"), <<>>)}
    ELSE IndexStage([s EXCEPT !.embeddings = Some(embed(Val(texts)))],
                    Append(stages, "embed"))

\* FitArguments as it would be if a changed batch size reset the embeddings
\* alone
FitArgumentsKeepProjections(s, texts, batch_size, projection_algorithm, clustering_algorithm) ==
    LET reset == batch_size # None /\ Val(batch_size) # s.batch_size
    IN  [s EXCEPT !.embeddings = IF reset THEN None ELSE @,
                  !.batch_size = OrInt(batch_size, @),
                  !.texts = OrList(texts, @),
                  !.projection_algorithm = OrStr(projection_algorithm, @),
                  !.clustering_algorithm = OrStr(clustering_algorithm, @)]

\* lines 117-127: the reset on a changed batch size, then the fallbacks
FitArguments(s, texts, batch_size, projection_algorithm, clustering_algorithm) ==
    LET reset == batch_size # None /\ Val(batch_size) # s.batch_size
    IN  [s EXCEPT !.embeddings = IF reset THEN None ELSE @,
                  !.projections = IF reset THEN None ELSE @,
                  !.batch_size = OrInt(batch_size, @),
                  !.texts = OrList(texts, @),
                  !.projection_algorithm = OrStr(projection_algorithm, @),
                  !.clustering_algorithm = OrStr(clustering_algorithm, @)]

\* lines 172-175: the consecutive groups of n texts, each joined with "\n"
batch_and_join(texts, n) ==
    [b \in 1..((Len(texts) + n - 1) \div n) |->
        Join(SubSeq(texts, (b - 1) * n + 1, Min(b * n, Len(texts))), "\n")]

\* line 130: None > 1 raises TypeError; for a batch size above 1 the call
\* self.batch_and_join(self.texts) binds texts to the object and n to the
\* list, and len(texts) raises TypeError
FitRuns(s, texts, batch_size, projection_algorithm, clustering_algorithm) ==
    LET s1 == FitArguments(s, texts, batch_size, projection_algorithm,
                           clustering_algorithm)
    IN  IF batch_size = None \/ Val(batch_size) > 1
        THEN {Run(s1, "TypeError", <<>>, <<>>)}
        ELSE EmbedStage(s1, texts, <<>>)

(***************************************************************************)
(* infer.  The index holds the vectors added to it, in order; a search     *)
(* returns, for one query, the ids of the top_k nearest vectors by         *)
(* increasing L2 distance (equal distances in any order), and fills the    *)
(* row with -1 when the index holds fewer than top_k vectors.              *)
(***************************************************************************)
Distance(v, w) == (v - w) * (v - w)

search(index, query, top_k) ==
    LET ntotal == Len(index)
        found == Min(top_k, ntotal)
        dist(doc) == Distance(At(index, doc), query)
    IN  {row \in [1..top_k -> -1..(ntotal - 1)] :
            /\ \A i \in 1..found : row[i] >= 0
            /\ \A i \in (found + 1)..top_k : row[i] = -1
            /\ \A i, j \in 1..found :
                   i < j => row[i] # row[j] /\ dist(row[i]) <= dist(row[j])
            /\ \A doc \in 0..(ntotal - 1) :
                   doc \notin {row[i] : i \in 1..found}
                       => \A i \in 1..found : dist(row[i]) <= dist(doc)}

\* index.search(embeddings, top_k): one row for each query, in order
RECURSIVE search_all(_, _, _)
search_all(index, queries, top_k) ==
    IF queries = <<>> THEN {<<>>}
    ELSE {<<row>> \o rest : row \in search(index, queries[1], top_k),
                            rest \in search_all(index, Tail(queries), top_k)}

\* list[i] of Python: a negative i counts from the end
InRange(list, i) == -Len(list) <= i /\ i < Len(list)
PyAt(list, i) == IF i < 0 THEN list[Len(list) + i + 1] ELSE list[i + 1]

Count(labels, label) == Cardinality({i \in DOMAIN labels : labels[i] = label})
\* Counter(labels).most_common(1)[0][0]: the first label met among those
\* with the highest count
most_common(labels) ==
    LET first == CHOOSE i \in DOMAIN labels :
                    /\ \A j \in DOMAIN labels :
                          Count(labels, labels[j]) <= Count(labels, labels[i])
                    /\ \A j \in 1..(i - 1) :
                          Count(labels, labels[j]) < Count(labels, labels[i])
    IN  labels[first]

\* the labels that line 167 collects for one row of neighbours
NeighbourLabels(cluster_labels, row) ==
    [j \in DOMAIN row |-> PyAt(cluster_labels, row[j])]

\* the runs of infer: [outcome, neighbours, ret]
InferRuns(s, texts, top_k) ==
    LET embeddings == embed(texts)
    IN  IF s.faiss_index = None
        THEN {[outcome |-> "AttributeError", neighbours |-> <<>>, ret |-> None]}
        ELSE {IF s.cluster_labels = None
              THEN [outcome |-> "TypeError", neighbours |-> neighbours, ret |-> None]
              ELSE IF \E i \in DOMAIN neighbours, j \in 1..top_k :
                          ~InRange(Val(s.cluster_labels), neighbours[i][j])
              THEN [outcome |-> "IndexError", neighbours |-> neighbours, ret |-> None]
              ELSE [outcome |-> "ok", neighbours |-> neighbours,
                    ret |-> Some(<<[i \in DOMAIN neighbours |->
                                      most_common(NeighbourLabels(Val(s.cluster_labels),
                                                                  neighbours[i]))],
                                   embeddings>>)]
              : neighbours \in search_all(Val(s.faiss_index), embeddings, top_k)}

(***************************************************************************)
(* save and load.  A file of the folder is <<>> while it does not exist    *)
(* and <<content>> once written.  cluster_summaries.json holds the dict    *)
(* with its keys as JSON writes them, as strings.                          *)
(***************************************************************************)
Digits == <<"0", "1", "2", "3", "4", "5", "6", "7", "8", "9">>
RECURSIVE NatToStr(_)
NatToStr(n) ==
    IF n < 10 THEN <<Digits[n + 1]>>
    ELSE NatToStr(n \div 10) \o <<Digits[(n % 10) + 1]>>
\* str(key) of json.dump for an int key
IntToStr(i) == IF i < 0 THEN <<"-">> \o NatToStr(-i) ELSE NatToStr(i)

RECURSIVE StrToNat(_)
StrToNat(str) ==
    IF str = <<>> THEN 0
    ELSE 10 * StrToNat(SubSeq(str, 1, Len(str) - 1))
            + ((CHOOSE d \in 1..10 : Digits[d] = str[Len(str)]) - 1)
\* int(key)
StrToInt(str) == IF str[1] = "-" THEN -StrToNat(Tail(str)) ELSE StrToNat(str)

json_dump(summaries) ==
    [key \in {IntToStr(label) : label \in DOMAIN summaries} |->
        summaries[StrToInt(key)]]
\* lines 366-369: json.load, then every key replaced by int(key)
json_load_int_keys(object) ==
    [label \in {StrToInt(key) : key \in DOMAIN object} |-> object[IntToStr(label)]]

\* save: [folder, outcome]
SaveRun(s, f) ==
    LET f1 == [f EXCEPT !.exists = TRUE, !.embeddings = <<s.embeddings>>]
        f2 == [f1 EXCEPT !.faiss = <<s.faiss_index>>,
                         !.projections = <<s.projections>>,
                         !.cluster_labels = <<s.cluster_labels>>,
                         !.texts = <<s.texts>>]
    IN  IF s.faiss_index = None
        THEN [folder |-> f1, outcome |-> "TypeError"]
        ELSE IF s.cluster_summaries = Unset
        THEN [folder |-> f2, outcome |-> "AttributeError"]
        ELSE IF Val(s.cluster_summaries) = None
        THEN [folder |-> f2, outcome |-> "ok"]
        ELSE [folder |-> [f2 EXCEPT !.cluster_summaries =
                              <<json_dump(Val(Val(s.cluster_summaries)))>>],
              outcome |-> "ok"]

\* np.load refuses a pickled None (allow_pickle is False)
Loadable(file) == file # <<>> /\ Val(file) # None

\* load: [self, outcome]; the attributes read before an exception stay read
LoadRun(s, f) ==
    LET s1 == [s EXCEPT !.embeddings = Val(f.embeddings)]
        s2 == [s1 EXCEPT !.faiss_index = Val(f.faiss)]
        s3 == [s2 EXCEPT !.projections = Val(f.projections)]
        s4 == [s3 EXCEPT !.cluster_labels = Val(f.cluster_labels)]
        s5 == [s4 EXCEPT !.texts = Val(f.texts)]
        s6 == IF f.cluster_summaries # <<>>
              THEN [s5 EXCEPT !.cluster_summaries =
                        Attr(Some(json_load_int_keys(Val(f.cluster_summaries))))]
              ELSE s5
        info == ClusterInfo(s6, Val(s6.cluster_labels))
    IN  IF ~f.exists THEN [self |-> s, outcome |-> "ValueError"]
        ELSE IF f.embeddings = <<>> THEN [self |-> s, outcome |-> "FileNotFoundError"]
        ELSE IF ~Loadable(f.embeddings) THEN [self |-> s, outcome |-> "ValueError"]
        ELSE IF f.faiss = <<>> THEN [self |-> s1, outcome |-> "RuntimeError"]
        ELSE IF f.projections = <<>> THEN [self |-> s2, outcome |-> "FileNotFoundError"]
        ELSE IF ~Loadable(f.projections) THEN [self |-> s2, outcome |-> "ValueError"]
        ELSE IF f.cluster_labels = <<>> THEN [self |-> s3, outcome |-> "FileNotFoundError"]
        ELSE IF ~Loadable(f.cluster_labels) THEN [self |-> s3, outcome |-> "ValueError"]
        ELSE IF f.texts = <<>> THEN [self |-> s4, outcome |-> "FileNotFoundError"]
        ELSE IF info.raised THEN [self |-> info.self, outcome |-> "IndexError"]
        ELSE [self |-> info.self, outcome |-> "ok"]

(***************************************************************************)
(* The state: the object, the folder on disk, and two history variables.   *)
(* last records the last call: its name and arguments, how it ended, the   *)
(* stages and requests it made, what it returned, and for a fit or a load  *)
(* the batch size, embeddings and projections the object held before and   *)
(* whether it held summaries.                                              *)
(* saved                                                                   *)
(* is the object as it was when save last completed (None after a save     *)
(* that raised part-way).                                                  *)
(***************************************************************************)
NoFolder ==
    [exists |-> FALSE, embeddings |-> <<>>, faiss |-> <<>>, projections |-> <<>>,
     cluster_labels |-> <<>>, texts |-> <<>>, cluster_summaries |-> <<>>]

NoPre ==
    [batch_size |-> 0, embeddings |-> None, projections |-> None,
     summarized |-> FALSE]

Call(op, outcome) ==
    [op |-> op, outcome |-> outcome, texts |-> None, batch_size |-> None,
     projection_algorithm |-> None, clustering_algorithm |-> None, top_k |-> 0,
     stages |-> <<>>, requests |-> <<>>, ret |-> None, neighbours |-> <<>>,
     pre |-> NoPre]

BatchSizes == {1, 2}
\* the constructor's summary_n_examples and summary_chunk_size
SummaryExamples == {1, 2}
SummaryChunkSizes == {1, 2}
BatchSizeArgs == {None, Some(0), Some(1), Some(2)}
TextArgs == {None} \cup {Some(t) : t \in TextLists}

InitCall ==
    [op |-> "init", outcome |-> "ok", texts |-> None, batch_size |-> None,
     projection_algorithm |-> None, clustering_algorithm |-> None, top_k |-> 0,
     stages |-> <<>>, requests |-> <<>>, ret |-> None, neighbours |-> <<>>,
     pre |-> NoPre]

Init ==
    /\ self \in {Construct(b, "umap", "dbscan", sc, 2, 2) :
                    b \in BatchSizes, sc \in BOOLEAN}
    /\ folder = NoFolder
    /\ last = InitCall
    /\ saved = None

Fit(texts, batch_size, projection_algorithm, clustering_algorithm) ==
    \E r \in FitRuns(self, texts, batch_size, projection_algorithm,
                     clustering_algorithm) :
        /\ self' = r.self
        /\ last' = [Call("fit", r.outcome) EXCEPT
                        !.texts = texts,
                        !.batch_size = batch_size,
                        !.projection_algorithm = projection_algorithm,
                        !.clustering_algorithm = clustering_algorithm,
                        !.pre = [batch_size |-> self.batch_size,
                                 embeddings |-> self.embeddings,
                                 projections |-> self.projections,
                                 summarized |-> self.cluster_summaries
                                                    \notin {Unset, Attr(None)}],
                        !.stages = r.stages,
                        !.requests = r.requests,
                        !.ret = IF r.outcome = "ok"
                                THEN Some(<<r.self.embeddings, r.self.cluster_labels,
                                            r.self.cluster_summaries>>)
                                ELSE None]
        /\ UNCHANGED <<folder, saved>>

\* Infer as it would be if line 162 assigned the new embeddings to the object
InferStoresEmbeddings(texts, top_k) ==
    \E r \in InferRuns(self, texts, top_k) :
        /\ self' = [self EXCEPT !.embeddings = Some(embed(texts))]
        /\ last' = [Call("infer", r.outcome) EXCEPT
                        !.top_k = top_k,
                        !.neighbours = r.neighbours,
                        !.ret = r.ret]
        /\ UNCHANGED <<folder, saved>>

Infer(texts, top_k) ==
    \E r \in InferRuns(self, texts, top_k) :
        /\ last' = [Call("infer", r.outcome) EXCEPT
                        !.top_k = top_k,
                        !.neighbours = r.neighbours,
                        !.ret = r.ret]
        /\ UNCHANGED <<self, folder, saved>>

Save ==
    LET r == SaveRun(self, folder)
    IN  /\ folder' = r.folder
        /\ saved' = IF r.outcome = "ok" THEN Some(self) ELSE None
        /\ last' = Call("save", r.outcome)
        /\ UNCHANGED self

Load ==
    LET r == LoadRun(self, folder)
    IN  /\ self' = r.self
        /\ last' = [Call("load", r.outcome) EXCEPT
                        !.pre = [batch_size |-> self.batch_size,
                                 embeddings |-> self.embeddings,
                                 projections |-> self.projections,
                                 summarized |-> self.cluster_summaries
                                                    \notin {Unset, Attr(None)}]]
        /\ UNCHANGED <<folder, saved>>

\* a new object, in a process that finds the folder as it was left
New(batch_size, projection_algorithm, clustering_algorithm, summary_create, summary_n_examples, summary_chunk_size) ==
    LET valid == /\ projection_algorithm \in ProjectionAlgorithms
                 /\ clustering_algorithm \in ClusteringAlgorithms
    IN  /\ self' = IF valid
                   THEN Construct(batch_size, projection_algorithm,
                                  clustering_algorithm, summary_create,
                                  summary_n_examples, summary_chunk_size)
                   ELSE self
        /\ last' = [Call("init", IF valid THEN "ok" ELSE "ValueError") EXCEPT
                        !.projection_algorithm = Some(projection_algorithm),
                        !.clustering_algorithm = Some(clustering_algorithm)]
        /\ UNCHANGED <<folder, saved>>

(***************************************************************************)
(* Spec: fit calls on one object, with and without texts and batch size.   *)
(***************************************************************************)
FitTexts ==
    \E texts \in TextArgs, batch_size \in BatchSizeArgs :
        Fit(texts, batch_size, None, None)

Next == FitTexts

Spec == Init /\ [][Next]_vars

(***************************************************************************)
(* SpecInfer: an object fitted on a corpus of up to MaxCorpus documents,  *)
(* and infer calls on it.                                                  *)
(***************************************************************************)
InitInfer ==
    /\ self = Construct(1, "umap", "dbscan", FALSE, 2, 2)
    /\ folder = NoFolder
    /\ last = InitCall
    /\ saved = None

FitCorpus == \E texts \in Corpora(MaxCorpus) : Fit(Some(texts), Some(1), None, None)

InferTexts ==
    \E texts \in UNION {[1..n -> Texts] : n \in 1..MaxInfer}, top_k \in 1..MaxTopK :
        Infer(texts, top_k)

NextInfer == FitCorpus \/ InferTexts

SpecInfer == InitInfer /\ [][NextInfer]_vars

(***************************************************************************)
(* SpecSummarize: fits with summary_create set, on a corpus of up to       *)
(* MaxCorpus documents, clustered with or without a noise label.           *)
(***************************************************************************)
InitSummarize ==
    /\ self \in {Construct(1, "umap", c, TRUE, n, size) :
                    c \in {"dbscan", "kmeans"},
                    n \in SummaryExamples, size \in SummaryChunkSizes}
    /\ folder = NoFolder
    /\ last = InitCall
    /\ saved = None

NextSummarize == FitCorpus

SpecSummarize == InitSummarize /\ [][NextSummarize]_vars

(***************************************************************************)
(* SpecPersist: one object that is fitted, saved to the folder and loaded  *)
(* from it, fits that raise included.                                      *)
(***************************************************************************)
InitPersist ==
    /\ self = Construct(1, "umap", "dbscan", FALSE, 2, 2)
    /\ folder = NoFolder
    /\ last = InitCall
    /\ saved = None

FitPersist ==
    \E texts \in TextArgs, batch_size \in {Some(1), Some(2)} :
        Fit(texts, batch_size, None, None)

NextPersist == FitPersist \/ Save \/ Load

SpecPersist == InitPersist /\ [][NextPersist]_vars

(***************************************************************************)
(* SpecFolder: objects constructed one after the other, with and without   *)
(* summaries, that share the folder.                                       *)
(***************************************************************************)
InitFolder ==
    /\ self \in {Construct(1, "umap", "dbscan", sc, 2, 2) : sc \in BOOLEAN}
    /\ folder = NoFolder
    /\ last = InitCall
    /\ saved = None

NewObject == \E sc \in BOOLEAN : New(1, "umap", "dbscan", sc, 2, 2)

FitFolder == Fit(Some(Corpus(MaxDocs)), Some(1), None, None)

NextFolder == NewObject \/ FitFolder \/ Save \/ Load

SpecFolder == InitFolder /\ [][NextFolder]_vars

(***************************************************************************)
(* SpecAlgorithms: objects constructed with supported and unsupported      *)
(* algorithm names, and fits that override the algorithms or leave them.   *)
(***************************************************************************)
ProjectionNames == {"pca", "umap", "nmf"}
ClusteringNames == {"dbscan", "kmeans", "birch"}
ProjectionArgs == {None} \cup {Some(p) : p \in ProjectionNames}
ClusteringArgs == {None} \cup {Some(c) : c \in ClusteringNames}

InitAlgorithms ==
    /\ self = Construct(1, "umap", "dbscan", FALSE, 2, 2)
    /\ folder = NoFolder
    /\ last = InitCall
    /\ saved = None

NewAlgorithms ==
    \E p \in ProjectionNames, c \in ClusteringNames : New(1, p, c, FALSE, 2, 2)

FitAlgorithms ==
    \E projection_algorithm \in ProjectionArgs, clustering_algorithm \in ClusteringArgs :
        Fit(Some(Corpus(MaxDocs)), Some(1), projection_algorithm, clustering_algorithm)

NextAlgorithms == NewAlgorithms \/ FitAlgorithms

SpecAlgorithms == InitAlgorithms /\ [][NextAlgorithms]_vars

(***************************************************************************)
(* Claims checked under Spec.                                              *)
(***************************************************************************)
Stages == Range(last.stages)
FitCalled == last.op = "fit"
FitReturned == last.op = "fit" /\ last.outcome = "ok"

HeldCache == last.pre.embeddings # None /\ last.pre.projections # None
SameBatchSize == last.batch_size = Some(last.pre.batch_size)
ChangedBatchSize ==
    last.batch_size # None /\ Val(last.batch_size) # last.pre.batch_size

\* C1: a fit on an object that holds embeddings and projections, called with
\* the object's current batch size, invokes neither the embedder nor the
\* projector and leaves the embeddings and projections as they were; the
\* only stages it runs are clustering and summarization.
C1_CacheReuse ==
    (FitCalled /\ HeldCache /\ SameBatchSize)
        => /\ "embed" \notin Stages
           /\ "project" \notin Stages
           /\ Stages \subseteq {"cluster", "summarize"}
           /\ self.embeddings = last.pre.embeddings
           /\ self.projections = last.pre.projections

\* a fit that returned after reusing the cache and clustering again
C1_Witness ==
    FitReturned /\ HeldCache /\ SameBatchSize /\ "cluster" \in Stages

\* C2: a fit called with a batch size that is not None and differs from the
\* object's current one reuses neither the stored embeddings nor the stored
\* projections: whatever the object holds of them after the call was
\* computed by the embedder and the projector during the call, and a fit
\* that returns has computed both.
C2_CacheInvalidation ==
    (FitCalled /\ ChangedBatchSize)
        => /\ self.embeddings # None => "embed" \in Stages
           /\ self.projections # None => "project" \in Stages
           /\ last.outcome = "ok"
                  => /\ self.embeddings = Some(embed(Val(self.texts)))
                     /\ "embed" \in Stages /\ "project" \in Stages

\* a fit that discarded a held cache and returned with a new one
C2_Witness == FitReturned /\ ChangedBatchSize /\ HeldCache

\* C9: a fit called without batch_size, on an object that has texts (passed
\* or stored), keeps the configured batch size and runs to completion
\* without raising.
C9_OmittedArguments ==
    (FitCalled /\ last.batch_size = None /\ self.texts # None)
        => /\ last.outcome = "ok"
           /\ self.batch_size = last.pre.batch_size

\* C10: after every fit or load that returned, the nearest-neighbour index
\* holds exactly the vectors of the stored embeddings, in the same order.
C10_IndexMatchesEmbeddings ==
    (last.op \in {"fit", "load"} /\ last.outcome = "ok")
        => self.faiss_index = Some(build_faiss_index(Val(self.embeddings)))

(***************************************************************************)
(* Claims checked under SpecInfer.                                         *)
(***************************************************************************)
\* the neighbours of a row that are documents of the index
RealNeighbours(row) == SelectSeq(row, LAMBDA doc : doc >= 0)
\* the labels that occur most often in a list of labels
MajorityLabels(labels) ==
    {l \in Range(labels) :
        \A m \in Range(labels) : Count(labels, m) <= Count(labels, l)}

\* C3: an infer that returns gives one label for each input text, and that
\* label occurs the maximum number of times among the cluster labels of the
\* documents the index returned as the nearest neighbours of the text.
C3_InferMajority ==
    (last.op = "infer" /\ last.outcome = "ok")
        => LET inferred_labels == Val(last.ret)[1]
               embeddings == Val(last.ret)[2]
           IN  /\ Len(inferred_labels) = Len(embeddings)
               /\ \A i \in 1..Len(inferred_labels) :
                    LET docs == RealNeighbours(last.neighbours[i])
                    IN  inferred_labels[i] \in
                            MajorityLabels([j \in 1..Len(docs) |->
                                At(Val(self.cluster_labels), docs[j])])

(***************************************************************************)
(* Claims checked under SpecSummarize.                                     *)
(***************************************************************************)
Requests == Range(last.requests)
Summarized == last.op = "fit" /\ "summarize" \in Stages

\* C5: summarize sends no request for the noise label and samples no
\* document labelled -1, and the summaries it returns map -1 to "None".
C5_NoiseExcluded ==
    Summarized
        => /\ \A request \in Requests :
                /\ request.label # -1
                /\ \A i \in DOMAIN request.ids :
                        At(Val(self.cluster_labels), request.ids[i]) # -1
           /\ last.outcome = "ok"
                => /\ -1 \in DOMAIN Val(Val(self.cluster_summaries))
                   /\ Val(Val(self.cluster_summaries))[-1] = <<"N", "o", "n", "e">>

\* a fit that returned summaries for a clustering with noise and a cluster
C5_Witness ==
    /\ Summarized /\ last.outcome = "ok"
    /\ -1 \in Range(Val(self.cluster_labels))
    /\ Requests # {}

\* C6: after a fit that returned with summary_create set, cluster_summaries
\* has a topic label for every cluster label other than -1 that occurs in
\* cluster_labels.
C6_EveryClusterSummarized ==
    (FitReturned /\ self.summary_create)
        => \A label \in Range(Val(self.cluster_labels)) \ {-1} :
               label \in DOMAIN Val(Val(self.cluster_summaries))

\* C7: every request sent to the summarizer holds exactly
\* summary_n_examples examples, each the text of a document of the
\* request's cluster cut to at most summary_chunk_size characters.
C7_BoundedExamples ==
    Summarized
        => \A request \in Requests :
            /\ Len(request.examples) = self.summary_n_examples
            /\ Len(request.ids) = self.summary_n_examples
            /\ \A i \in 1..Len(request.examples) :
                LET doc == request.ids[i]
                    example == request.examples[i]
                    text == At(Val(self.texts), doc)
                IN  /\ doc \in 0..(Len(Val(self.cluster_labels)) - 1)
                    /\ At(Val(self.cluster_labels), doc) = request.label
                    /\ Len(example) <= self.summary_chunk_size
                    /\ Len(example) <= Len(text)
                    /\ example = SubSeq(text, 1, Len(example))

\* a request for a cluster of more documents than examples, with an example
\* that was cut
C7_Witness ==
    /\ Summarized /\ last.outcome = "ok"
    /\ \E request \in Requests :
        /\ Len(Val(self.label2docs)[request.label]) > self.summary_n_examples
        /\ \E i \in 1..Len(request.examples) :
              Len(request.examples[i]) < Len(At(Val(self.texts), request.ids[i]))

(***************************************************************************)
(* Claims checked under SpecPersist and SpecFolder.                        *)
(***************************************************************************)
\* the places <<label, position>> of label2docs that hold document doc
Places(label2docs, doc) ==
    {place \in UNION {{<<label, k>> : k \in 1..Len(label2docs[label])} :
                        label \in DOMAIN label2docs} :
        label2docs[place[1]][place[2]] = doc}

\* C4: after every fit or load that returned, id2cluster maps each document
\* index i of 0..N-1 to cluster_labels[i], and the lists of label2docs hold
\* every index exactly once, index i in the list of label cluster_labels[i]
\* and nothing but indices of 0..N-1.
C4_OneLabelPerDocument ==
    (last.op \in {"fit", "load"} /\ last.outcome = "ok")
        => LET cluster_labels == Val(self.cluster_labels)
               id2cluster == Val(self.id2cluster)
               label2docs == Val(self.label2docs)
               N == Len(cluster_labels)
           IN  /\ DOMAIN id2cluster = 0..(N - 1)
               /\ \A i \in 0..(N - 1) :
                    /\ id2cluster[i] = cluster_labels[i + 1]
                    /\ Cardinality(Places(label2docs, i)) = 1
                    /\ \A place \in Places(label2docs, i) :
                            place[1] = cluster_labels[i + 1]
               /\ \A label \in DOMAIN label2docs :
                    \A k \in 1..Len(label2docs[label]) :
                        label2docs[label][k] \in 0..(N - 1)

\* a load that returned a clustering with noise and a cluster
C4_Witness ==
    /\ last.op = "load" /\ last.outcome = "ok"
    /\ {-1, 0} \subseteq Range(Val(self.cluster_labels))

\* no summaries: the attribute is None or was never assigned
NoSummaries(s) == s.cluster_summaries = Unset \/ s.cluster_summaries = Attr(None)

\* C8: a load into a newly constructed object that returns, after a save
\* into the folder that returned, leaves embeddings, projections, cluster_labels, texts, id2cluster,
\* label2docs and cluster_centers equal to those of the saved object, and
\* cluster_summaries equal to the saved object's (None or absent when the
\* saved object had none).
C8_RoundTrip ==
    (last.op = "load" /\ last.outcome = "ok" /\ saved # None
        /\ last.pre.embeddings = None)
        => LET was == Val(saved)
           IN  /\ self.embeddings = was.embeddings
               /\ self.projections = was.projections
               /\ self.cluster_labels = was.cluster_labels
               /\ self.texts = was.texts
               /\ self.id2cluster = was.id2cluster
               /\ self.label2docs = was.label2docs
               /\ self.cluster_centers = was.cluster_centers
               /\ IF NoSummaries(was) THEN NoSummaries(self)
                  ELSE self.cluster_summaries = was.cluster_summaries

(***************************************************************************)
(* Claims about the rows of a fitted object, checked under Spec.           *)
(***************************************************************************)
\* C11: after every fit that returned, the embeddings, projections and
\* cluster_labels have one row for each element of the stored texts, row i
\* computed from texts[i], and every id of label2docs is an index of texts.
C11_RowsMatchTexts ==
    FitReturned
        => LET texts == Val(self.texts)
               label2docs == Val(self.label2docs)
           IN  /\ self.embeddings = Some(embed(texts))
               /\ self.projections =
                      Some(Val(project(embed(texts), self.projection_algorithm))[1])
               /\ Len(Val(self.cluster_labels)) = Len(texts)
               /\ \A label \in DOMAIN label2docs :
                      \A k \in 1..Len(label2docs[label]) :
                          label2docs[label][k] \in 0..(Len(texts) - 1)


(***************************************************************************)
(* Claims checked under SpecAlgorithms.                                    *)
(***************************************************************************)
LastStage == IF last.stages = <<>> THEN "none" ELSE last.stages[Len(last.stages)]

\* C12: a construction raises ValueError exactly when one of its algorithm
\* names is unsupported; the algorithm names stored on the object are
\* supported ones at every point, whatever fits were called; and no fit ends
\* in project returning no pair or in cluster producing no labels.
C12_SupportedAlgorithms ==
    /\ (last.op = "init" /\ last.projection_algorithm # None)
          => (last.outcome = "ValueError"
                <=> \/ Val(last.projection_algorithm) \notin ProjectionAlgorithms
                    \/ Val(last.clustering_algorithm) \notin ClusteringAlgorithms)
    /\ self.projection_algorithm \in ProjectionAlgorithms
    /\ self.clustering_algorithm \in ClusteringAlgorithms
    /\ (FitCalled /\ LastStage = "project") => last.outcome # "TypeError"
    /\ (FitCalled /\ LastStage = "cluster") => last.outcome # "UnboundLocalError"


(***************************************************************************)
(* Claims about batching, checked under Spec.                              *)
(***************************************************************************)
\* C13: a fit called with a batch size n above 1 on texts (passed, or
\* stored on the object) returns, and leaves as the stored texts the
\* consecutive groups of n of those texts, each joined with newlines, on
\* which it ran its stages.
C13_Batching ==
    [][(/\ last'.op = "fit"
        /\ last'.batch_size # None /\ Val(last'.batch_size) > 1
        /\ OrList(last'.texts, self.texts) # None)
          => /\ last'.outcome = "ok"
             /\ self'.texts = Some(batch_and_join(Val(OrList(last'.texts, self.texts)),
                                                  Val(last'.batch_size)))
             /\ Len(Val(self'.cluster_labels)) = Len(Val(self'.texts))]_vars


(***************************************************************************)
(* Claims about the order of the stages, checked under Spec.               *)
(***************************************************************************)
\* the stages of the last call follow each other in increasing rank
Ordered(rank) ==
    \A i, j \in DOMAIN last.stages :
        i < j => rank[last.stages[i]] < rank[last.stages[j]]

\* C14 as stated: the stages a fit executes run in the order embedding,
\* dimensionality reduction, clustering, nearest-neighbour indexing,
\* summarization.
C14_StageOrderAsStated ==
    FitCalled
        => Ordered([embed |-> 1, project |-> 2, cluster |-> 3, index |-> 4,
                    summarize |-> 5])

\* C14 amended: the stages a fit executes run in the order embedding,
\* nearest-neighbour indexing, dimensionality reduction, clustering,
\* summarization, each started after the one before it has finished.
C14_StageOrder ==
    FitCalled
        => Ordered([embed |-> 1, index |-> 2, project |-> 3, cluster |-> 4,
                    summarize |-> 5])

\* a fit that ran all five stages and returned
C14_Witness ==
    /\ FitReturned
    /\ last.stages = <<"embed", "index", "project", "cluster", "summarize">>


(***************************************************************************)
(* Claims about fits without summaries, checked under SpecFolder.          *)
(***************************************************************************)
\* C15: a fit on an object whose summary_create is false sends no request
\* to the summarizer; when it returns, cluster_summaries is None, whatever
\* summaries the object held before; and every fit that returns gives back
\* the embeddings, cluster_labels and cluster_summaries the object holds.
C15_NoSummaries ==
    /\ (FitCalled /\ ~self.summary_create)
          => /\ "summarize" \notin Stages
             /\ last.requests = <<>>
    /\ (FitReturned /\ ~self.summary_create)
          => /\ self.cluster_summaries = Attr(None)
             /\ Val(last.ret)[3] = Attr(None)
    /\ FitReturned
          => last.ret = Some(<<self.embeddings, self.cluster_labels,
                               self.cluster_summaries>>)

\* a fit without summaries that returned on an object that held the
\* summaries of an earlier load
C15_Witness ==
    /\ FitReturned /\ ~self.summary_create
    /\ last.pre.summarized


(***************************************************************************)
(* Claims about the effect of infer, checked under SpecInfer.              *)
(***************************************************************************)
\* C16: an infer call leaves the texts, embeddings, index, projections,
\* cluster_labels, label2docs and cluster_summaries of the object, and with
\* them everything a later fit reuses, as they were before the call.
C16_InferFrame ==
    [][last'.op = "infer"
          => /\ self'.texts = self.texts
             /\ self'.embeddings = self.embeddings
             /\ self'.faiss_index = self.faiss_index
             /\ self'.projections = self.projections
             /\ self'.cluster_labels = self.cluster_labels
             /\ self'.label2docs = self.label2docs
             /\ self'.cluster_summaries = self.cluster_summaries
             /\ self' = self]_vars

\* an infer that returned labels on a fitted object
C16_Witness ==
    /\ last.op = "infer" /\ last.outcome = "ok"
    /\ self.embeddings # None /\ self.cluster_labels # None


====
